---- MODULE Spec2Model ----
(***************************************************************************)
(* A model of View (src/src/view.py): the row partition (Zr, Nk), the      *)
(* attached column models (dims), the CRP concentration (alpha), the       *)
(* operations that mutate them and the queries (logpdf, simulate,          *)
(* logpdf_marginal) that read them.                                        *)
(*                                                                         *)
(* Row ids and cluster labels are 0-based as in the source; the sequences  *)
(* that hold them are 1-based, so list[i] of the source is seq[i+1] here.  *)
(***************************************************************************)
EXTENDS Integers, Sequences, FiniteSets

VARIABLES
    X,           \* self.X: the dataset, one tuple of column values per row
    Zr,          \* self.Zr: row -> cluster label, or NaN for a vacated row
    Nk,          \* self.Nk: cluster label -> number of rows
    dims,        \* self.dims: column index -> the column model's clusters
    alpha,       \* self.alpha
    alpha_grid,  \* self.alpha_grid
    call,        \* the last call made on the view: <<name, rowid, k, m>>
    result,      \* how that call ended: "ok" or the name of the exception
    log,         \* what that call did: its calls on the column models, its
                 \* draws from the rng and the internal steps it went through
    before       \* Nk and dims as they were before the last incorporate_row,
                 \* kept while that row is taken out again by the next call

vars == <<X, Zr, Nk, dims, alpha, alpha_grid, call, result, log, before>>

-----------------------------------------------------------------------------
(* Bounds of the model. *)

MaxRows == 3        \* rows the dataset ever holds
InitRows == 2       \* rows of the dataset the view is built from
MaxAux == 2         \* largest m given to _transition_row
MaxGridDraw == 1    \* the rng picks among the first MaxGridDraw grid entries

(* Program constants. *)

GridSize == 30      \* view.py:52
DefaultAux == 1     \* view.py:281, m=1

Cols == {0, 1}
Vals == {1, 2}

\* the values of the i-th row handed to the view: column 0 alternates,
\* column 1 is constant
RowAt(i) == <<1 + (i % 2), 2>>

-----------------------------------------------------------------------------
(* Python values. *)

NaN == -1           \* np.nan, the mark of a vacated row (view.py:127)
None == -2          \* an omitted argument

IsNaN(z) == z = NaN

\* where a draw takes its randomness from: the view's generator (rng=self.rng),
\* or whatever the drawing function falls back on when it is given none
SelfRng == 0
NoRng == 1

\* float comparison: nan is equal to nothing, itself included, and is
\* neither above nor below anything
PyEq(a, b) == ~IsNaN(a) /\ ~IsNaN(b) /\ a = b
PyGt(a, b) == ~IsNaN(a) /\ ~IsNaN(b) /\ a > b

\* list[i], with i a 0-based index
At(seq, i) == seq[i + 1]

\* list[i] is legal: i is an integer (not nan) within the list
IndexOk(seq, i) == ~IsNaN(i) /\ i >= 0 /\ i < Len(seq)

RECURSIVE SumSeq(_)
SumSeq(seq) == IF seq = <<>> THEN 0 ELSE Head(seq) + SumSeq(Tail(seq))

\* a del that removes nothing
DelAt_kept(seq, i) == seq

\* del list[i]
DelAt(seq, i) == SubSeq(seq, 1, i) \o SubSeq(seq, i + 2, Len(seq))

\* the columns of a set in increasing order: the order the dims are visited
RECURSIVE ColSeq(_)
ColSeq(S) ==
    IF S = {} THEN <<>>
    ELSE LET c == CHOOSE x \in S : \A y \in S : x <= y
         IN <<c>> \o ColSeq(S \ {c})

-----------------------------------------------------------------------------
(* The column model (Dim): per cluster, how many times each value has been *)
(* incorporated.  A Dim is a sequence of such counts, indexed by label.    *)

EmptyCluster == [v \in Vals |-> 0]

\* the label names one of the Dim's clusters, or the next fresh one
DimLabelOk(d, k, fresh) == ~IsNaN(k) /\ k >= 0 /\ k < Len(d) + (IF fresh THEN 1 ELSE 0)

dim_incorporate(d, x, k) ==
    IF k = Len(d)
    THEN Append(d, [EmptyCluster EXCEPT ![x] = 1])
    ELSE [d EXCEPT ![k + 1][x] = @ + 1]

dim_unincorporate(d, x, k) == [d EXCEPT ![k + 1][x] = @ - 1]

dim_bulk_unincorporate(d, k) == DelAt(d, k)

RECURSIVE dim_bulk_incorporate(_, _, _)
dim_bulk_incorporate(d, xs, zs) ==
    IF xs = <<>> \/ zs = <<>> THEN d
    ELSE LET k == Head(zs)
             padded == IF k < Len(d) THEN d
                       ELSE d \o [i \in 1 .. (k + 1 - Len(d)) |-> EmptyCluster]
         IN dim_bulk_incorporate(
                [padded EXCEPT ![k + 1][Head(xs)] = @ + 1], Tail(xs), Tail(zs))

\* X[:, c]
Column(data, c) == [i \in 1 .. Len(data) |-> data[i][c + 1]]

-----------------------------------------------------------------------------
(* The concentration.  The grid log_linspace(1/n, n, size) is held by its  *)
(* parameters; its entry at index i (0-based) is base^(num/(size-1)) with  *)
(* num = 2i - (size-1), which runs from 1/n to n.  0^1 stands for a        *)
(* supplied concentration of zero.                                         *)

log_linspace(n, size) == [base |-> n, size |-> size]

\* self.alpha_grid[index]
GridAt(grid, index) == [base |-> grid.base, num |-> 2 * index - (grid.size - 1)]

ZeroAlpha == [base |-> 0, num |-> GridSize - 1]

Positive(a) == a.base > 0

-----------------------------------------------------------------------------
(* A call in progress: the view's fields, what the call has done so far    *)
(* (log) and whether an exception is propagating (err).                    *)

Running(s) == s.err = "ok"
Raise(s, e) == [s EXCEPT !.err = e]
Note(s, what, a, b, c) == [s EXCEPT !.log = Append(@, <<what, a, b, c>>)]

\* X[rowid, c]
Cell(s, rowid, c) == s.X[rowid + 1][c + 1]

\* for dim in self.dims.values(): dim.incorporate(self.X[rowid, dim.index], k)
RECURSIVE dims_incorporate(_, _, _, _)
dims_incorporate(s, cs, rowid, k) ==
    IF cs = <<>> \/ ~Running(s) THEN s
    ELSE LET c == Head(cs)
             x == Cell(s, rowid, c)
             s1 == Note(s, "incorporate", c, x, k)
         IN IF ~DimLabelOk(s.dims[c], k, TRUE) THEN Raise(s1, "IndexError")
            ELSE dims_incorporate(
                     [s1 EXCEPT !.dims[c] = dim_incorporate(@, x, k)],
                     Tail(cs), rowid, k)

\* the row's values are left in the column models
dims_unincorporate_skipped(s, cs, rowid) == s

\* for dim in self.dims.values():
\*     dim.unincorporate(self.X[rowid, dim.index], self.Zr[rowid])
RECURSIVE dims_unincorporate(_, _, _)
dims_unincorporate(s, cs, rowid) ==
    IF cs = <<>> \/ ~Running(s) THEN s
    ELSE LET c == Head(cs)
             x == Cell(s, rowid, c)
             k == At(s.Zr, rowid)
             s1 == Note(s, "unincorporate", c, x, k)
         IN IF ~DimLabelOk(s.dims[c], k, FALSE) THEN Raise(s1, "IndexError")
            ELSE dims_unincorporate(
                     [s1 EXCEPT !.dims[c] = dim_unincorporate(@, x, k)],
                     Tail(cs), rowid)

\* the column models are not told of the emptied cluster
dims_bulk_unincorporate_skipped(s, cs, k) == s

\* for dim in self.dims.values(): dim.bulk_unincorporate(k)
RECURSIVE dims_bulk_unincorporate(_, _, _)
dims_bulk_unincorporate(s, cs, k) ==
    IF cs = <<>> THEN s
    ELSE LET c == Head(cs)
         IN dims_bulk_unincorporate(
                [Note(s, "bulk_unincorporate", c, 0, k)
                    EXCEPT !.dims[c] = dim_bulk_unincorporate(@, k)],
                Tail(cs), k)

\* the labels above the emptied cluster are left as they are
Relabel_kept(zr, k) == zr

\* every label above 0 is moved down, whichever cluster was emptied
Relabel_merging(zr, k) ==
    [i \in 1 .. Len(zr) |-> IF PyGt(zr[i], 0) THEN zr[i] - 1 ELSE zr[i]]

\* [i-1 if i>k else i for i in self.Zr]
Relabel(zr, k) == [i \in 1 .. Len(zr) |-> IF PyGt(zr[i], k) THEN zr[i] - 1 ELSE zr[i]]

unincorporate_row(s, rowid) ==
    LET s1 == dims_unincorporate(s, ColSeq(DOMAIN s.dims), rowid)
        k == At(s1.Zr, rowid)
        s2 == [s1 EXCEPT !.Nk[k + 1] = @ - 1]
        s3 == IF At(s2.Nk, k) = 0
              THEN dims_bulk_unincorporate(
                       [s2 EXCEPT !.Zr = Relabel(@, k), !.Nk = DelAt(@, k)],
                       ColSeq(DOMAIN s2.dims), k)
              ELSE s2
    IN IF ~Running(s1) THEN s1
       ELSE IF ~IndexOk(s1.Nk, k) THEN Raise(s1, "TypeError")
       ELSE [s3 EXCEPT !.Zr[rowid + 1] = NaN]

\* the row's value is excised and not put back
RECURSIVE dims_logpdf_row_excising(_, _, _, _)
dims_logpdf_row_excising(s, cs, rowid, k) ==
    IF cs = <<>> \/ ~Running(s) THEN s
    ELSE LET c == Head(cs)
             x == Cell(s, rowid, c)
             own == PyEq(At(s.Zr, rowid), k)
             s1 == IF own
                   THEN [Note(s, "unincorporate", c, x, k)
                            EXCEPT !.dims[c] = dim_unincorporate(@, x, k)]
                   ELSE s
             s2 == Note(s1, "logpdf", c, x, k)
         IN IF ~DimLabelOk(s.dims[c], k, TRUE) THEN Raise(s2, "IndexError")
            ELSE dims_logpdf_row_excising(s2, Tail(cs), rowid, k)

\* the loop body of _logpdf_row, for the dims cs
RECURSIVE dims_logpdf_row(_, _, _, _)
dims_logpdf_row(s, cs, rowid, k) ==
    IF cs = <<>> \/ ~Running(s) THEN s
    ELSE LET c == Head(cs)
             x == Cell(s, rowid, c)
             own == PyEq(At(s.Zr, rowid), k)
             s1 == IF own
                   THEN [Note(s, "unincorporate", c, x, k)
                            EXCEPT !.dims[c] = dim_unincorporate(@, x, k)]
                   ELSE s
             s2 == Note(s1, "logpdf", c, x, k)
             s3 == IF own
                   THEN [Note(s2, "incorporate", c, x, k)
                            EXCEPT !.dims[c] = dim_incorporate(@, x, k)]
                   ELSE s2
         IN IF ~DimLabelOk(s.dims[c], k, TRUE) THEN Raise(s2, "IndexError")
            ELSE dims_logpdf_row(s3, Tail(cs), rowid, k)

_logpdf_row(s, rowid, k) ==
    IF ~Running(s) THEN s
    ELSE IF ~(k <= Len(s.Nk)) THEN Raise(s, "AssertionError")
    ELSE dims_logpdf_row(Note(s, "_logpdf_row", rowid, 0, k),
                         ColSeq(DOMAIN s.dims), rowid, k)

\* [self._logpdf_row(rowid, k) for k in xrange(len(self.Nk))], from label k on
RECURSIVE logp_data(_, _, _)
logp_data(s, rowid, k) ==
    IF k >= Len(s.Nk) THEN s
    ELSE logp_data(_logpdf_row(s, rowid, k), rowid, k + 1)

\* [self._logpdf_row(rowid, len(self.Nk)) for _ in m_aux], n of them left
RECURSIVE logp_data_aux(_, _, _)
logp_data_aux(s, rowid, n) ==
    IF n <= 0 THEN s
    ELSE logp_data_aux(_logpdf_row(s, rowid, Len(s.Nk)), rowid, n - 1)

\* a row alone in its cluster gets as many fresh clusters as any other
m_aux_always(s, rowid, m) == m

\* m_aux = range(m-1) if self.Nk[self.Zr[rowid]] == 1 else range(m)
m_aux(s, rowid, m) == IF At(s.Nk, At(s.Zr, rowid)) = 1 THEN m - 1 ELSE m

\* len(gu.logp_crp_gibbs(Nk, Zr, rowid, alpha, m)): one weight per cluster
\* and one per auxiliary slot, the row's own singleton taking one slot
logp_crp_gibbs_len(s, rowid, m) ==
    Len(s.Nk) + (IF At(s.Nk, At(s.Zr, rowid)) = 1 THEN m - 1 ELSE m)

_check_partitions(s) ==
    LET s1 == Note(s, "_check_partitions", 0, 0, 0)
    IN IF ~Running(s) THEN s
       ELSE IF ~Positive(s1.alpha) THEN Raise(s1, "AssertionError")
       ELSE IF ~(SumSeq(s1.Nk) = Len(s1.Zr)) THEN Raise(s1, "AssertionError")
       ELSE s1

RECURSIVE incorporate_row(_, _, _)
RECURSIVE transition_rows(_, _)
RECURSIVE _transition_row(_, _, _)

\* The outcomes of incorporate_row(rowid, k): one per sequence of draws.
incorporate_row(s, rowid, k0) ==
    LET k == IF k0 = None THEN 0 ELSE k0
        transition == IF k = None THEN <<rowid>> ELSE <<>>
        s1 == dims_incorporate(s, ColSeq(DOMAIN s.dims), rowid, k)
        s2 == IF k = Len(s1.Nk) THEN [s1 EXCEPT !.Nk = Append(@, 0)] ELSE s1
        s3 == [s2 EXCEPT !.Nk[k + 1] = @ + 1]
        s4 == IF rowid = Len(s3.Zr) THEN [s3 EXCEPT !.Zr = Append(@, 0)] ELSE s3
        s5 == [s4 EXCEPT !.Zr[rowid + 1] = k]
    IN IF ~Running(s1) THEN {s1}
       ELSE IF ~IndexOk(s2.Nk, k) THEN {Raise(s2, "IndexError")}
       ELSE IF ~IndexOk(s4.Zr, rowid) THEN {Raise(s3, "IndexError")}
       ELSE transition_rows({s5}, transition)

\* for rowid in rows: self._transition_row(rowid), from each state of S
transition_rows(S, rows) ==
    IF rows = <<>> THEN S
    ELSE transition_rows(
             UNION {_transition_row(s, Head(rows), DefaultAux) : s \in S},
             Tail(rows))

_transition_row(s, rowid, m) ==
    LET z == At(s.Zr, rowid)
        s0 == Note(s, "_transition_row", rowid, 0, m)
        s1 == logp_data(s0, rowid, 0)
        s2 == logp_data_aux(s1, rowid, m_aux(s1, rowid, m))
        n_data == Len(s2.Nk) + m_aux(s1, rowid, m)
        migrate(z_b) ==
            LET s3 == Note(s2, "log_pflip", n_data, SelfRng, z_b)
            IN IF z_b # z
               THEN incorporate_row(unincorporate_row(s3, rowid), rowid, z_b)
               ELSE {s3}
    IN IF ~Running(s) THEN {s}
       ELSE IF PyEq(z, NaN) THEN {s0}
       ELSE IF ~Running(s1) THEN {s1}
       ELSE IF ~IndexOk(s1.Nk, z) THEN {Raise(s1, "TypeError")}
       ELSE IF ~Running(s2) THEN {s2}
       ELSE IF ~Positive(s2.alpha) THEN {Raise(s2, "ValueError")}
       ELSE IF n_data # logp_crp_gibbs_len(s2, rowid, m)
            THEN {Raise(s2, "AssertionError")}
       ELSE {_check_partitions(t) :
                t \in UNION {migrate(z_b) : z_b \in 0 .. (n_data - 1)}}

\* the column is bulk-incorporated whatever reassign says
incorporate_dim_reassigning(s, c, dim, reassign) ==
    LET s1 == [s EXCEPT !.dims = [d \in DOMAIN s.dims \cup {c} |->
                                     IF d = c THEN dim ELSE s.dims[d]]]
        s2 == [Note(s1, "bulk_incorporate", c, 0, 0)
                  EXCEPT !.dims[c] =
                      dim_bulk_incorporate(<<>>, Column(s1.X, c), s1.Zr)]
    IN IF ~Running(s) THEN s
       ELSE Note(s2, "logpdf_marginal", c, 0, 0)

\* self.dims[dim.index] = dim; if reassign: dim.bulk_incorporate(X[:, index], Zr);
\* return sum(dim.logpdf_marginal()).  dim is the column model as handed in.
incorporate_dim(s, c, dim, reassign) ==
    LET s1 == [s EXCEPT !.dims = [d \in DOMAIN s.dims \cup {c} |->
                                     IF d = c THEN dim ELSE s.dims[d]]]
        s2 == IF reassign
              THEN [Note(s1, "bulk_incorporate", c, 0, 0)
                       EXCEPT !.dims[c] =
                           dim_bulk_incorporate(<<>>, Column(s1.X, c), s1.Zr)]
              ELSE s1
    IN IF ~Running(s) THEN s
       ELSE Note(s2, "logpdf_marginal", c, 0, 0)

\* del self.dims[dim.index]; return sum(dim.logpdf_marginal())
unincorporate_dim(s, c) ==
    IF ~Running(s) THEN s
    ELSE IF c \notin DOMAIN s.dims THEN Raise(s, "KeyError")
    ELSE Note([s EXCEPT !.dims = [d \in DOMAIN s.dims \ {c} |-> s.dims[d]]],
              "logpdf_marginal", c, 0, 0)

\* rows = xrange(len(self.Zr))
default_rows(s) == [i \in 1 .. Len(s.Zr) |-> i - 1]

\* self.transition_rows(): the outcomes of a sweep over every row of Zr
transition_rows_all(s) ==
    IF ~Running(s) THEN {s}
    ELSE transition_rows({Note(s, "transition_rows", Len(s.Zr), 0, 0)},
                         default_rows(s))

\* logps = [gu.logp_crp_unorm(len(self.Zr), len(self.Nk), alpha) for alpha in grid];
\* index = gu.log_pflip(logps, rng=self.rng); self.alpha = self.alpha_grid[index].
\* The first entry holds the number of clusters and the row count given.
transition_alpha(s, index) ==
    IF ~Running(s) THEN s
    ELSE [Note(Note(s, "transition_alpha", Len(s.Nk), Len(s.Zr), 0),
               "log_pflip", GridSize, SelfRng, index)
             EXCEPT !.alpha = GridAt(s.alpha_grid, index)]

\* the log of: for c in cols: self.dims[c].transition_hypers()
RECURSIVE hypers_log(_)
hypers_log(cs) ==
    IF cs = <<>> THEN <<>>
    ELSE <<<<"transition_hypers", Head(cs), 0, 0>>>> \o hypers_log(Tail(cs))

\* self.transition_column_hypers(): cols = self.dims.keys()
transition_column_hypers(s) ==
    IF ~Running(s) THEN s
    ELSE [Note(s, "transition_column_hypers", 0, 0, 0)
             EXCEPT !.log = @ \o hypers_log(ColSeq(DOMAIN s.dims))]

\* one round of transition(N), from the state s: the outcomes of the sweep,
\* each followed by the concentration and the column hyperparameters
transition_round(s) ==
    {transition_column_hypers(transition_alpha(t, index)) :
        t \in transition_rows_all(s), index \in 0 .. (MaxGridDraw - 1)}

\* for _ in xrange(N): the outcomes of the n rounds left, from each state of S
RECURSIVE transition(_, _)
transition(S, n) ==
    IF n <= 0 THEN S
    ELSE transition(UNION {transition_round(s) : s \in S}, n - 1)

-----------------------------------------------------------------------------
(* The queries.  A query is a sequence of <<col, val>> pairs for logpdf and *)
(* of columns for simulate; the evidence is a sequence of <<col, val>>      *)
(* pairs.  What a query returns is decided by the calls it makes on the     *)
(* column models and by its draws, which the log keeps in order.            *)

\* row 0 is taken for a hypothetical row
_is_hypothetical_strict(s, rowid) == ~(0 < rowid /\ rowid < Len(s.Zr))

\* not 0 <= rowid < len(self.Zr)
_is_hypothetical(s, rowid) == ~(0 <= rowid /\ rowid < Len(s.Zr))

\* the value is left in the cluster it is evaluated against
dims_logpdf_incorporating(s, col, val, k) ==
    IF ~Running(s) THEN s
    ELSE IF col \notin DOMAIN s.dims THEN Raise(s, "KeyError")
    ELSE IF ~DimLabelOk(s.dims[col], k, TRUE)
         THEN Raise(Note(s, "logpdf", col, val, k), "IndexError")
    ELSE IF k = Len(s.dims[col]) THEN Note(s, "logpdf", col, val, k)
    ELSE [Note(Note(s, "logpdf", col, val, k), "incorporate", col, val, k)
             EXCEPT !.dims[col] = dim_incorporate(@, val, k)]

\* a column that is not attached adds nothing
dims_logpdf_lenient(s, col, val, k) ==
    IF ~Running(s) \/ col \notin DOMAIN s.dims THEN s
    ELSE IF ~DimLabelOk(s.dims[col], k, TRUE)
         THEN Raise(Note(s, "logpdf", col, val, k), "IndexError")
    ELSE Note(s, "logpdf", col, val, k)

\* self.dims[col].logpdf(val, k)
dims_logpdf(s, col, val, k) ==
    IF ~Running(s) THEN s
    ELSE IF col \notin DOMAIN s.dims THEN Raise(s, "KeyError")
    ELSE IF ~DimLabelOk(s.dims[col], k, TRUE)
         THEN Raise(Note(s, "logpdf", col, val, k), "IndexError")
    ELSE Note(s, "logpdf", col, val, k)

\* self.dims[col].simulate(k)
dims_simulate(s, col, k) ==
    IF ~Running(s) THEN s
    ELSE IF col \notin DOMAIN s.dims THEN Raise(s, "KeyError")
    ELSE IF ~DimLabelOk(s.dims[col], k, TRUE)
         THEN Raise(Note(s, "simulate", col, 0, k), "IndexError")
    ELSE Note(s, "simulate", col, 0, k)

\* for (col, val) in query: k = self.Zr[rowid]; logpdf += self.dims[col].logpdf(val, k)
RECURSIVE logpdf_terms(_, _, _)
logpdf_terms(s, rowid, query) ==
    IF query = <<>> \/ ~Running(s) THEN s
    ELSE logpdf_terms(
             dims_logpdf(s, Head(query)[1], Head(query)[2], At(s.Zr, rowid)),
             rowid, Tail(query))

\* the evidence decides the terms as well
_logpdf_observed_conditioned(s, rowid, query, evidence) ==
    logpdf_terms(Note(s, "_logpdf_observed", rowid, 0, 0), rowid, evidence \o query)

_logpdf_observed(s, rowid, query, evidence) ==
    logpdf_terms(Note(s, "_logpdf_observed", rowid, 0, 0), rowid, query)

\* np.log(self.Nk + [self.alpha]) - log(len(self.Zr) + self.alpha): one weight
\* per cluster and one for a singleton; log(0) raises.  The entry holds the
\* number of weights and the row count of the denominator.
_compute_cluster_crp_logps(s) ==
    IF ~Running(s) THEN s
    ELSE IF Len(s.Zr) = 0 /\ ~Positive(s.alpha) THEN Raise(s, "ValueError")
    ELSE Note(s, "_compute_cluster_crp_logps", Len(s.Nk) + 1, Len(s.Zr), 0)

\* [self.dims[col].logpdf(x, k) for k in xrange(len(self.dims[col].clusters)+1)],
\* from label k on
RECURSIVE cluster_data_logps(_, _, _, _)
cluster_data_logps(s, col, x, k) ==
    IF ~Running(s) \/ k > Len(s.dims[col]) THEN s
    ELSE cluster_data_logps(dims_logpdf(s, col, x, k), col, x, k + 1)

\* logp += self._compute_cluster_data_logps(col, x), logp of length n: arrays
\* of different lengths do not add, unless one holds a single entry
_compute_cluster_data_logps(s, col, x, n) ==
    IF ~Running(s) THEN s
    ELSE IF col \notin DOMAIN s.dims THEN Raise(s, "KeyError")
    ELSE LET s1 == cluster_data_logps(s, col, x, 0)
             len == Len(s.dims[col]) + 1
         IN IF Running(s1) /\ len # n /\ len # 1 THEN Raise(s1, "ValueError")
            ELSE s1

\* for (col, val) in pairs: logp += self._compute_cluster_data_logps(col, val)
RECURSIVE data_logps(_, _)
data_logps(s, pairs) ==
    IF pairs = <<>> \/ ~Running(s) THEN s
    ELSE data_logps(
             _compute_cluster_data_logps(s, Head(pairs)[1], Head(pairs)[2],
                                         Len(s.Nk) + 1),
             Tail(pairs))

_logpdf_hypothetical(s, query, evidence) ==
    LET s1 == _compute_cluster_crp_logps(Note(s, "_logpdf_hypothetical", 0, 0, 0))
        s2 == data_logps(s1, evidence)
    IN data_logps(s2, query)

logpdf(s, rowid, query, evidence) ==
    IF _is_hypothetical(s, rowid)
    THEN _logpdf_hypothetical(s, query, evidence)
    ELSE _logpdf_observed(s, rowid, query, evidence)

\* for col in query: k = self.Zr[rowid]; x = self.dims[col].simulate(k)
RECURSIVE simulate_draw(_, _, _)
simulate_draw(s, cols, k) ==
    IF cols = <<>> \/ ~Running(s) THEN s
    ELSE simulate_draw(dims_simulate(s, Head(cols), k), Tail(cols), k)

\* for _ in xrange(N): the n samples left
RECURSIVE observed_samples(_, _, _, _)
observed_samples(s, rowid, cols, n) ==
    IF n <= 0 \/ ~Running(s) THEN s
    ELSE observed_samples(simulate_draw(s, cols, At(s.Zr, rowid)), rowid, cols, n - 1)

_simulate_observed(s, rowid, query, evidence, N) ==
    observed_samples(Note(s, "_simulate_observed", rowid, 0, 0), rowid, query, N)

\* the drawn label is appended whatever cluster says
sample_draw_labelled(made, k, cluster) ==
    [i \in 1 .. Len(made) |-> <<made[i][2], made[i][4]>>] \o <<k>>

\* draw = [x for each simulate call made]; if cluster: draw.append(k).  A
\* value simulated by the model of column col at label k is held as <<col, k>>.
sample_draw(made, k, cluster) ==
    [i \in 1 .. Len(made) |-> <<made[i][2], made[i][4]>>]
        \o (IF cluster THEN <<k>> ELSE <<>>)

\* one sample: k = gu.log_pflip(cluster_logps), given no rng and drawn among
\* ncl clusters; one value per column; samples.append(draw)
hypothetical_sample(s, cols, k, ncl, cluster) ==
    LET s1 == Note(s, "log_pflip", ncl, NoRng, k)
        s2 == simulate_draw(s1, cols, k)
        made == SubSeq(s2.log, Len(s1.log) + 1, Len(s2.log))
    IN IF ~Running(s) THEN s
       ELSE IF ~Running(s2) THEN s2
       ELSE Note(s2, "append", sample_draw(made, k, cluster), 0, 0)

\* for _ in xrange(N): the outcomes of the n samples left, from each state of S
RECURSIVE hypothetical_samples(_, _, _, _, _)
hypothetical_samples(S, cols, n, ncl, cluster) ==
    IF n <= 0 THEN S
    ELSE hypothetical_samples(
             {hypothetical_sample(s, cols, k, ncl, cluster) :
                 s \in S, k \in 0 .. (ncl - 1)},
             cols, n - 1, ncl, cluster)

\* The outcomes of _simulate_hypothetical(query, evidence, N, cluster).
_simulate_hypothetical(s, query, evidence, N, cluster) ==
    LET s1 == _compute_cluster_crp_logps(Note(s, "_simulate_hypothetical", 0, 0, 0))
        s2 == data_logps(s1, evidence)
    IN hypothetical_samples({s2}, query, N, Len(s.Nk) + 1, cluster)

\* The outcomes of simulate(rowid, query, evidence, N).
simulate(s, rowid, query, evidence, N) ==
    IF _is_hypothetical(s, rowid)
    THEN _simulate_hypothetical(s, query, evidence, N, FALSE)
    ELSE {_simulate_observed(s, rowid, query, evidence, N)}

\* the log of: sum(sum(dim.logpdf_marginal()) for dim in self.dims.values())
RECURSIVE marginals_log(_)
marginals_log(cs) ==
    IF cs = <<>> THEN <<>>
    ELSE <<<<"logpdf_marginal", Head(cs), 0, 0>>>> \o marginals_log(Tail(cs))

\* gu.logp_crp(len(self.Zr), self.Nk, self.alpha) + the marginals of the dims.
\* The first entry holds the number of clusters and the row count given.
logpdf_marginal(s) ==
    IF ~Running(s) THEN s
    ELSE [Note(s, "logp_crp", Len(s.Nk), Len(s.Zr), 0)
             EXCEPT !.log = @ \o marginals_log(ColSeq(DOMAIN s.dims))]

-----------------------------------------------------------------------------
(* The view, as the argument of a call, and the end of a call. *)

Self == [X |-> X, Zr |-> Zr, Nk |-> Nk, dims |-> dims, alpha |-> alpha,
         alpha_grid |-> alpha_grid, log |-> <<>>, err |-> "ok"]

NoBefore == [rowid |-> NaN, Nk |-> <<>>, dims |-> <<>>]

Return(s, c) ==
    /\ before' =
           IF c[1] = "incorporate_row"
           THEN [rowid |-> c[2], Nk |-> Nk, dims |-> dims]
           ELSE IF /\ c[1] = "unincorporate_row"
                   /\ call[1] = "incorporate_row"
                   /\ c[2] = call[2]
                   /\ result = "ok"
                THEN before
                ELSE NoBefore
    /\ X' = s.X
    /\ Zr' = s.Zr
    /\ Nk' = s.Nk
    /\ dims' = s.dims
    /\ alpha' = s.alpha
    /\ alpha_grid' = s.alpha_grid
    /\ call' = c
    /\ result' = s.err
    /\ log' = s.log

Vacant(zr) == {i \in 1 .. Len(zr) : IsNaN(zr[i])}
Assigned(zr) == {i \in 1 .. Len(zr) : ~IsNaN(zr[i])}

\* The contract of __init__ on X: the data of rowid is X[rowid, :].  Between
\* the removal of rows from the dataset and reindex_rows the row ids of Zr
\* and of X differ, and no row is addressed.
RowsAddressable == Len(Zr) <= Len(X)

-----------------------------------------------------------------------------
(* Construction. *)

\* the labels in use, one count each
bincount_present(zr) ==
    LET top == CHOOSE k \in {zr[i] : i \in 1 .. Len(zr)} :
                   \A i \in 1 .. Len(zr) : zr[i] <= k
    IN [k \in 1 .. (top + 1) |-> 1]

\* np.bincount(Zr)
bincount(zr) ==
    LET top == CHOOSE k \in {zr[i] : i \in 1 .. Len(zr)} :
                   \A i \in 1 .. Len(zr) : zr[i] <= k
    IN [k \in 1 .. (top + 1) |-> Cardinality({i \in 1 .. Len(zr) : zr[i] = k - 1})]

\* a supplied partition, or a draw of gu.simulate_crp: every label from 0 to
\* the largest is in use
DenseAssignments(n) ==
    {zr \in [1 .. n -> 0 .. (n - 1)] :
        \A k \in 0 .. (n - 1) :
            (\E i \in 1 .. n : zr[i] > k) => (\E i \in 1 .. n : zr[i] = k)}

Datasets == {[i \in 1 .. InitRows |-> RowAt(i)]}

\* for dim in dims: self.incorporate_dim(dim), each dim handed in fresh
RECURSIVE incorporate_dims(_, _)
incorporate_dims(s, cs) ==
    IF cs = <<>> THEN s
    ELSE incorporate_dims(incorporate_dim(s, Head(cs), <<>>, TRUE), Tail(cs))

\* View(X, dims, alpha, Zr, rng): alpha_arg and Zr_arg hold the argument, or
\* nothing when it is omitted; index and crp are what the rng draws then
__init__(data, given, alpha_arg, Zr_arg, index, crp) ==
    LET grid == log_linspace(Len(data), GridSize)
        s0 == [X |-> data, Zr |-> <<>>, Nk |-> <<>>, dims |-> <<>>,
               alpha |-> ZeroAlpha, alpha_grid |-> grid, log |-> <<>>, err |-> "ok"]
        s1 == IF alpha_arg = {}
              THEN [Note(s0, "choice", GridSize, SelfRng, index)
                       EXCEPT !.alpha = GridAt(grid, index)]
              ELSE [s0 EXCEPT !.alpha = CHOOSE a \in alpha_arg : TRUE]
        s2 == IF Zr_arg = {}
              THEN [Note(s1, "simulate_crp", Len(data), SelfRng, 0) EXCEPT !.Zr = crp]
              ELSE [s1 EXCEPT !.Zr = CHOOSE zr \in Zr_arg : TRUE]
        s3 == [s2 EXCEPT !.Nk = bincount(s2.Zr)]
    IN incorporate_dims(s3, ColSeq(given))

\* the concentrations a caller supplies: zero, or a value of the grid
SuppliedAlphas(data) == {ZeroAlpha, GridAt(log_linspace(Len(data), GridSize), 0)}

Init ==
    \E data \in Datasets, given \in SUBSET Cols,
       index \in 0 .. (MaxGridDraw - 1), crp \in DenseAssignments(InitRows),
       Zr_arg \in {{}} \cup {{zr} : zr \in DenseAssignments(InitRows)} :
      \E alpha_arg \in {{}} \cup {{a} : a \in SuppliedAlphas(data)} :
        LET s == __init__(data, given, alpha_arg, Zr_arg, index, crp)
        IN /\ X = s.X
           /\ Zr = s.Zr
           /\ Nk = s.Nk
           /\ dims = s.dims
           /\ alpha = s.alpha
           /\ alpha_grid = s.alpha_grid
           /\ call = <<"__init__", alpha_arg, Zr_arg, given>>
           /\ result = s.err
           /\ log = s.log
           /\ before = NoBefore

-----------------------------------------------------------------------------
(* The calls. *)

\* rowid is a vacated row or the next new one; k is omitted, an existing
\* label or len(Nk)
IncorporateRow(rowid, k) ==
    /\ RowsAddressable
    /\ rowid < Len(X)
    /\ rowid = Len(Zr) \/ (rowid < Len(Zr) /\ IsNaN(At(Zr, rowid)))
    /\ k = None \/ (0 <= k /\ k <= Len(Nk))
    /\ \E s \in incorporate_row(Self, rowid, k) :
           Return(s, <<"incorporate_row", rowid, k, 0>>)

UnincorporateRow(rowid) ==
    /\ RowsAddressable
    /\ rowid < Len(Zr)
    /\ ~IsNaN(At(Zr, rowid))
    /\ Return(unincorporate_row(Self, rowid), <<"unincorporate_row", rowid, 0, 0>>)

\* self._transition_row(rowid, m), on any row of Zr, vacant ones included
TransitionRow(rowid, m) ==
    /\ RowsAddressable
    /\ rowid < Len(Zr)
    /\ \E s \in _transition_row(Self, rowid, m) :
           Return(s, <<"_transition_row", rowid, 0, m>>)

\* self.transition_rows(): rows = xrange(len(self.Zr))
TransitionRows ==
    /\ RowsAddressable
    /\ \E s \in transition_rows_all(Self) :
           Return(s, <<"transition_rows", 0, 0, 0>>)

\* the rng picks the index
TransitionAlpha(index) ==
    /\ index < GridSize
    /\ Return(transition_alpha(Self, index), <<"transition_alpha", 0, 0, 0>>)

TransitionColumnHypers ==
    LET s == transition_column_hypers(Self)
    IN /\ Running(s)
       /\ Return(s, <<"transition_column_hypers", 0, 0, 0>>)

\* the partition of a Dim that matches the view's: what bulk_incorporate
\* builds, and what the caller of incorporate_dim(dim, reassign=False) gives
Matching(c) ==
    LET rows == ColSeq(Assigned(Zr))
    IN dim_bulk_incorporate(<<>>,
           [i \in 1 .. Len(rows) |-> X[rows[i]][c + 1]],
           [i \in 1 .. Len(rows) |-> Zr[rows[i]]])

\* A dim is attached while the rows of X and of Zr agree; with reassign the
\* whole column is bulk-incorporated, which is done while no slot is vacant.
\* The dim handed in is fresh when it is to be reassigned, and holds the
\* matching partition otherwise.
IncorporateDim(c, reassign) ==
    /\ Len(Zr) = Len(X)
    /\ reassign => Vacant(Zr) = {}
    /\ LET dim == IF reassign THEN <<>> ELSE Matching(c)
       IN Return(incorporate_dim(Self, c, dim, reassign),
                 <<"incorporate_dim", c, reassign, dim>>)

UnincorporateDim(c) ==
    /\ c \in DOMAIN dims
    /\ Return(unincorporate_dim(Self, c), <<"unincorporate_dim", c, 0, 0>>)

\* what the owner of the dataset hands to set_dataset: the dataset with a
\* row appended, or with the rows that were unincorporated removed
Appended == IF Len(X) < MaxRows /\ RowsAddressable
            THEN {Append(X, RowAt(Len(X) + 1))} ELSE {}

Removed == IF Len(X) = Len(Zr) /\ Vacant(Zr) # {}
           THEN LET rows == ColSeq(Assigned(Zr))
                IN {[i \in 1 .. Len(rows) |-> X[rows[i]]]}
           ELSE {}

\* the grid is built anew for the rows of the new dataset
set_dataset_regrid(s, data) ==
    [s EXCEPT !.X = data, !.alpha_grid = log_linspace(Len(data), GridSize)]

\* self.X = X
set_dataset(s, data) == [s EXCEPT !.X = data]

SetDataset(data) ==
    /\ Len(data) <= MaxRows
    /\ Return(set_dataset(Self, data), <<"set_dataset", 0, 0, 0>>)

\* the lengths are not compared
reindex_rows_unchecked(s) ==
    LET rows == ColSeq(Assigned(s.Zr))
    IN [s EXCEPT !.Zr = [i \in 1 .. Len(rows) |-> s.Zr[rows[i]]]]

\* self.Zr = [z for z in self.Zr if not np.isnan(z)]
reindex_rows(s) ==
    LET rows == ColSeq(Assigned(s.Zr))
        s1 == [s EXCEPT !.Zr = [i \in 1 .. Len(rows) |-> s.Zr[rows[i]]]]
    IN IF Len(s1.Zr) = Len(s1.X) THEN s1 ELSE Raise(s1, "AssertionError")

\* called when there is nothing to drop, or after the dataset has lost the
\* rows that were unincorporated
ReindexRows ==
    /\ Vacant(Zr) = {} \/ Len(X) = Cardinality(Assigned(Zr))
    /\ Return(reindex_rows(Self), <<"reindex_rows", 0, 0, 0>>)

Next ==
    \/ \E rowid \in 0 .. (MaxRows - 1), k \in {None} \cup (0 .. MaxRows) :
           IncorporateRow(rowid, k)
    \/ \E rowid \in 0 .. (MaxRows - 1) : UnincorporateRow(rowid)
    \/ \E rowid \in 0 .. (MaxRows - 1), m \in 1 .. MaxAux : TransitionRow(rowid, m)
    \/ TransitionRows
    \/ \E index \in 0 .. (MaxGridDraw - 1) : TransitionAlpha(index)
    \/ TransitionColumnHypers
    \/ \E c \in Cols, reassign \in BOOLEAN : IncorporateDim(c, reassign)
    \/ \E c \in Cols : UnincorporateDim(c)
    \/ \E data \in Appended \cup Removed : SetDataset(data)
    \/ ReindexRows

Spec == Init /\ [][Next]_vars

-----------------------------------------------------------------------------
(* The queries, made between the calls that observe rows and columns. *)

MaxSamples == 1     \* largest N given to simulate

\* the rows asked about: -1 and rows past the end are hypothetical
QueryRows == -1 .. (MaxRows - 1)

\* what is asked: the same query without and with evidence, and a query of
\* both columns
Requests ==
    {[query |-> <<<<0, 1>>>>, evidence |-> <<>>],
     [query |-> <<<<0, 1>>>>, evidence |-> <<<<1, 2>>>>],
     [query |-> <<<<1, 2>>, <<0, 2>>>>, evidence |-> <<>>]}

\* the columns of a query, as simulate takes them
QueryCols(query) == [i \in 1 .. Len(query) |-> query[i][1]]

Logpdf(rowid, query, evidence) ==
    /\ rowid \in QueryRows
    /\ Return(logpdf(Self, rowid, query, evidence),
              <<"logpdf", rowid, query, evidence>>)

Simulate(rowid, query, evidence, N) ==
    /\ rowid \in QueryRows
    /\ \E s \in simulate(Self, rowid, query, evidence, N) :
           Return(s, <<"simulate", rowid, query, evidence, N>>)

Observe ==
    \/ \E rowid \in 0 .. (MaxRows - 1), k \in {None} \cup (0 .. MaxRows) :
           IncorporateRow(rowid, k)
    \/ \E rowid \in 0 .. (MaxRows - 1) : UnincorporateRow(rowid)
    \/ \E c \in Cols, reassign \in BOOLEAN : IncorporateDim(c, reassign)
    \/ \E c \in Cols : UnincorporateDim(c)
    \/ \E data \in Appended \cup Removed : SetDataset(data)
    \/ ReindexRows

Query ==
    \/ \E rowid \in QueryRows, r \in Requests : Logpdf(rowid, r.query, r.evidence)
    \/ \E rowid \in QueryRows, r \in Requests, N \in 0 .. MaxSamples :
           Simulate(rowid, QueryCols(r.query), r.evidence, N)

QueryNext == Observe \/ Query

QuerySpec == Init /\ [][QueryNext]_vars

-----------------------------------------------------------------------------
(* What the claims read off a state. *)

Called(name) == call[1] = name

\* the rows (1-based) that hold label k
Members(zr, k) == {i \in 1 .. Len(zr) : PyEq(zr[i], k)}

\* the entries of a log of one kind
Entries(lg, what) == {j \in 1 .. Len(lg) : lg[j][1] = what}

-----------------------------------------------------------------------------
(* C1: in every reachable state the cluster sizes add up to the number of  *)
(* assigned (non-vacant) rows, and every cluster size is positive.         *)
C1_SizesCountAssignedRows ==
    /\ SumSeq(Nk) = Cardinality(Assigned(Zr))
    /\ \A k \in 1 .. Len(Nk) : Nk[k] > 0

\* a row transition has run on a view that holds a vacant slot and two
\* clusters
C1_Witness ==
    /\ Called("_transition_row")
    /\ Entries(log, "log_pflip") # {}
    /\ Vacant(Zr) # {}
    /\ Len(Nk) = 2

(* C2: in every reachable state the labels held by assigned rows are       *)
(* exactly 0 .. len(Nk)-1, and Nk[k] is the number of rows with label k.   *)
C2_LabelsDenseAndCounted ==
    /\ {Zr[i] : i \in Assigned(Zr)} = 0 .. (Len(Nk) - 1)
    /\ \A k \in 0 .. (Len(Nk) - 1) : At(Nk, k) = Cardinality(Members(Zr, k))

\* unincorporate_row has emptied a cluster below a surviving one
C2_Witness ==
    /\ Called("unincorporate_row")
    /\ Entries(log, "bulk_unincorporate") # {}
    /\ \E j \in Entries(log, "bulk_unincorporate") : log[j][4] < Len(Nk)

(* C3: when unincorporate_row(r) empties cluster k, every other row with a *)
(* label above k gets label-1, every row with a label below k keeps it,    *)
(* vacant slots stay vacant, entry k leaves Nk with the other entries kept *)
(* in order, and every attached column model is told bulk_unincorporate(k) *)
(* and drops the statistics of k, keeping the others in order.             *)
C3_CompactionKeepsOrder ==
    [][
        (/\ call'[1] = "unincorporate_row"
         /\ result' = "ok"
         /\ At(Nk, At(Zr, call'[2])) = 1)
        =>
        LET r == call'[2] + 1
            k == Zr[r]
        IN /\ Len(Zr') = Len(Zr)
           /\ Zr'[r] = NaN
           /\ \A i \in (1 .. Len(Zr)) \ {r} :
                  /\ IsNaN(Zr[i]) => IsNaN(Zr'[i])
                  /\ (~IsNaN(Zr[i]) /\ Zr[i] > k) => Zr'[i] = Zr[i] - 1
                  /\ (~IsNaN(Zr[i]) /\ Zr[i] < k) => Zr'[i] = Zr[i]
           /\ Len(Nk') = Len(Nk) - 1
           /\ \A j \in 1 .. Len(Nk') :
                  Nk'[j] = IF j <= k THEN Nk[j] ELSE Nk[j + 1]
           /\ DOMAIN dims' = DOMAIN dims
           /\ \A c \in DOMAIN dims :
                  /\ \E j \in Entries(log', "bulk_unincorporate") :
                         log'[j][2] = c /\ log'[j][4] = k
                  /\ Len(dims'[c]) = Len(dims[c]) - 1
                  /\ \A j \in 1 .. Len(dims'[c]) :
                         dims'[c][j] = IF j <= k THEN dims[c][j] ELSE dims[c][j + 1]
    ]_vars

\* unincorporate_row has emptied cluster 0 of a view with two column models,
\* another vacant slot and a surviving cluster
C3_Witness ==
    /\ Called("unincorporate_row")
    /\ result = "ok"
    /\ DOMAIN dims = Cols
    /\ \A c \in Cols : \E j \in Entries(log, "bulk_unincorporate") :
           log[j][2] = c /\ log[j][4] = 0
    /\ Cardinality(Vacant(Zr)) >= 2
    /\ Len(Nk) >= 1

(* C4: incorporate_row(r, k) followed immediately by unincorporate_row(r)  *)
(* leaves Nk and the statistics of every attached column model as they     *)
(* were before the incorporate, a new singleton cluster included.          *)
C4_RoundTrip ==
    (Called("unincorporate_row") /\ before # NoBefore)
        => (Nk = before.Nk /\ dims = before.dims)

\* the round trip has run through a new singleton cluster, with two column
\* models attached and another cluster present
C4_Witness ==
    /\ Called("unincorporate_row")
    /\ before # NoBefore
    /\ Entries(log, "bulk_unincorporate") # {}
    /\ DOMAIN dims = Cols
    /\ Len(Nk) >= 1

\* the round trip has run through an existing cluster
C4_WitnessExisting ==
    /\ Called("unincorporate_row")
    /\ before # NoBefore
    /\ Entries(log, "bulk_unincorporate") = {}
    /\ DOMAIN dims = Cols

-----------------------------------------------------------------------------
\* the draw of a row transition: the label of the log_pflip entry of a log
\* that holds one
Drawn(lg) == lg[CHOOSE j \in Entries(lg, "log_pflip") : TRUE][4]

\* the _logpdf_row calls of a log, in order
Evaluations(lg) == SelectSeq(lg, LAMBDA e : e[1] = "_logpdf_row")

\* the ledger invariant of the spec: the sizes add up to the assigned rows,
\* no cluster is empty, the concentration is positive
LedgerInSync ==
    /\ SumSeq(Nk) = Cardinality(Assigned(Zr))
    /\ \A k \in 1 .. Len(Nk) : Nk[k] > 0
    /\ Positive(alpha)

(* C5: incorporate_row(rowid) with the label omitted runs the row          *)
(* transition on exactly that row and consumes one categorical draw.       *)
C5_OmittedLabelIsDrawn ==
    (Called("incorporate_row") /\ call[3] = None /\ result = "ok")
        => /\ Cardinality(Entries(log, "log_pflip")) = 1
           /\ Entries(log, "_logpdf_row") # {}
           /\ \A j \in Entries(log, "_logpdf_row") : log[j][2] = call[2]

(* C6: in a row transition whose draw differs from the row's label, the    *)
(* row ends up with exactly the rows that held the drawn label before the  *)
(* transition, or alone in a new cluster when the draw was an auxiliary    *)
(* slot; also when the row was alone in its cluster.  Stated for the       *)
(* default m.                                                              *)
C6_RowLandsInDrawnCluster ==
    [][
        (/\ call'[1] = "_transition_row"
         /\ call'[4] = DefaultAux
         /\ ~IsNaN(At(Zr, call'[2]))
         /\ Entries(log', "log_pflip") # {}
         /\ Drawn(log') # At(Zr, call'[2]))
        =>
        LET r == call'[2] + 1
            z_b == Drawn(log')
        IN /\ ~IsNaN(Zr'[r])
           /\ IF z_b < Len(Nk)
              THEN Members(Zr', Zr'[r]) \ {r} = Members(Zr, z_b)
              ELSE Members(Zr', Zr'[r]) = {r}
    ]_vars

(* C7: a row transition on a vacant row returns without error, draws       *)
(* nothing and changes nothing; a default sweep over a view with vacant    *)
(* slots completes and leaves them vacant.                                 *)
C7_VacantRowIsSkipped ==
    [][
        /\ (call'[1] = "_transition_row" /\ IsNaN(At(Zr, call'[2])))
               => /\ result' = "ok"
                  /\ Entries(log', "log_pflip") = {}
                  /\ UNCHANGED <<Zr, Nk, dims>>
        /\ (call'[1] = "transition_rows" /\ Vacant(Zr) # {} /\ Positive(alpha))
               => /\ result' = "ok"
                  /\ Vacant(Zr') = Vacant(Zr)
    ]_vars

C9_GuardFailsOnlyOnDesync ==
    [][
        (/\ call'[1] = "_transition_row"
         /\ call'[4] = DefaultAux
         /\ ~IsNaN(At(Zr, call'[2])))
        => (result' = "ok" <=> LedgerInSync)
    ]_vars

(* C10: construction, incorporate_row, unincorporate_row, incorporate_dim, *)
(* the row transition and the concentration transition each end with the   *)
(* ledger/concentration check, so none of them returns normally with a     *)
(* ledger out of sync or a concentration that is not positive.             *)
C10_EveryMutationEndsWithTheCheck ==
    (/\ call[1] \in {"__init__", "incorporate_row", "unincorporate_row",
                     "incorporate_dim", "_transition_row", "transition_alpha"}
     /\ result = "ok")
        => /\ log # <<>>
           /\ log[Len(log)][1] = "_check_partitions"
           /\ LedgerInSync

-----------------------------------------------------------------------------
(* The rounds of transition(N), run between the calls that observe rows    *)
(* and columns.                                                            *)

MaxSweeps == 1      \* largest N given to transition

Transition(N) ==
    /\ RowsAddressable
    /\ \E s \in transition({Self}, N) : Return(s, <<"transition", N, 0, 0>>)

SweepNext == Observe \/ \E N \in 0 .. MaxSweeps : Transition(N)

SweepSpec == Init /\ [][SweepNext]_vars

-----------------------------------------------------------------------------
(* What the claims read off a query. *)

IsQuery(c) == c[1] \in {"logpdf", "simulate"}

\* the row asked about lies within the assignment
InRange(rowid, zr) == 0 <= rowid /\ rowid < Len(zr)

\* the entries of a log that are draws
Draws(lg) == {j \in 1 .. Len(lg) : lg[j][1] \in {"choice", "simulate_crp", "log_pflip"}}

\* the entries of a log that are calls changing a column model
Mutations(lg) ==
    {j \in 1 .. Len(lg) :
        lg[j][1] \in {"incorporate", "unincorporate",
                      "bulk_incorporate", "bulk_unincorporate"}}

\* the calls a query made on the column models, in order
DimCalls(lg) == SelectSeq(lg, LAMBDA e : e[1] \in {"logpdf", "simulate"})

\* the columns named by a sequence of <<col, val>> pairs
PairCols(pairs) == {pairs[i][1] : i \in 1 .. Len(pairs)}

\* the columns named by the query of a call: pairs for logpdf, columns for
\* simulate
NamedByQuery(c) ==
    IF c[1] = "logpdf" THEN PairCols(c[3]) ELSE {c[3][i] : i \in 1 .. Len(c[3])}

(* C11: every stochastic step of the view draws from the view's own random *)
(* source, which is what makes two views with the same seed and the same   *)
(* calls agree: the choice of the initial concentration, the CRP draw of   *)
(* the initial partition, the Gibbs label draw, the grid draw and the      *)
(* cluster draw of a hypothetical simulate are all given self.rng.  Read   *)
(* off every call that returns.                                            *)
C11_EveryDrawFromOwnRng ==
    result = "ok" => \A j \in Draws(log) : log[j][3] = SelfRng

(* C12: logpdf and simulate, on observed and on hypothetical rows, with    *)
(* any query and evidence, and whether they return or raise, leave Zr, Nk, *)
(* alpha, the grid and the attached columns with their statistics as they  *)
(* were, and make no incorporate or unincorporate call on a column model.  *)
C12_QueriesDoNotMutate ==
    [][
        IsQuery(call')
        => /\ UNCHANGED <<Zr, Nk, alpha, alpha_grid>>
           /\ DOMAIN dims' = DOMAIN dims
           /\ dims' = dims
           /\ Mutations(log') = {}
    ]_vars

\* a hypothetical logpdf with evidence has evaluated the column models of a
\* view with two clusters and returned
C12_Witness ==
    /\ Called("logpdf")
    /\ result = "ok"
    /\ ~InRange(call[2], Zr)
    /\ call[4] # <<>>
    /\ Len(Nk) = 2
    /\ Len(DimCalls(log)) >= 6

\* a hypothetical simulate has drawn a cluster and a value and returned
C12_WitnessSimulate ==
    /\ Called("simulate")
    /\ result = "ok"
    /\ ~InRange(call[2], Zr)
    /\ Entries(log, "log_pflip") # {}
    /\ Entries(log, "simulate") # {}

(* C13: for an observed row, logpdf and simulate evaluate every queried    *)
(* column's model at the label the ledger holds for the row and ignore the *)
(* evidence: the calls made on the column models, and so the value         *)
(* returned, are those of the same call on the same state with no          *)
(* evidence.                                                               *)
C13_ObservedIgnoresEvidence ==
    [][
        (IsQuery(call') /\ InRange(call'[2], Zr))
        =>
        LET rowid == call'[2]
            query == call'[3]
            calls == DimCalls(log')
            cols == IF call'[1] = "logpdf" THEN QueryCols(query) ELSE query
        IN /\ \A j \in 1 .. Len(calls) :
                  /\ calls[j][4] = At(Zr, rowid)
                  /\ calls[j][2] \in NamedByQuery(call')
           /\ result' = "ok" =>
                  /\ call'[1] = "logpdf" =>
                         /\ Len(calls) = Len(query)
                         /\ \A j \in 1 .. Len(calls) :
                                calls[j][2] = cols[j] /\ calls[j][3] = query[j][2]
                  /\ call'[1] = "simulate" =>
                         /\ Len(calls) = call'[5] * Len(query)
                         /\ \A j \in 1 .. Len(calls) :
                                calls[j][2] = cols[((j - 1) % Len(query)) + 1]
           /\ call'[1] = "logpdf" =>
                  LET s == logpdf(Self, rowid, query, <<>>)
                  IN log' = s.log /\ result' = s.err
           /\ call'[1] = "simulate" =>
                  \E s \in simulate(Self, rowid, query, <<>>, call'[5]) :
                      log' = s.log /\ result' = s.err
    ]_vars

\* an observed logpdf given evidence on an attached column has returned,
\* having evaluated the queried column only
C13_Witness ==
    /\ Called("logpdf")
    /\ result = "ok"
    /\ InRange(call[2], Zr)
    /\ call[4] # <<>>
    /\ PairCols(call[4]) \subseteq DOMAIN dims
    /\ Len(DimCalls(log)) = 1
    /\ Len(Nk) = 2

(* C14: logpdf and simulate take the row for observed exactly when         *)
(* 0 <= rowid < len(Zr), and for hypothetical otherwise (rowid -1, or at   *)
(* or past len(Zr)), in every reachable state, rows appended by            *)
(* incorporate_row included.                                               *)
C14_RegimeByRowRange ==
    [][
        IsQuery(call')
        => /\ log' # <<>>
           /\ call'[1] = "logpdf" =>
                  log'[1][1] = IF InRange(call'[2], Zr)
                               THEN "_logpdf_observed" ELSE "_logpdf_hypothetical"
           /\ call'[1] = "simulate" =>
                  log'[1][1] = IF InRange(call'[2], Zr)
                               THEN "_simulate_observed" ELSE "_simulate_hypothetical"
    ]_vars

\* a row appended by incorporate_row past the rows the view was built from
\* is asked about and taken for observed
C14_Witness ==
    /\ Called("logpdf")
    /\ call[2] = InitRows
    /\ Len(Zr) = InitRows + 1
    /\ ~IsNaN(At(Zr, InitRows))
    /\ log[1][1] = "_logpdf_observed"

\* the same row index is hypothetical for simulate while the view is short
C14_WitnessHypothetical ==
    /\ Called("simulate")
    /\ call[2] = InitRows
    /\ Len(Zr) = InitRows
    /\ log[1][1] = "_simulate_hypothetical"

\* the frame of a failed query: nothing the view holds has changed
C15_Frame == UNCHANGED <<Zr, Nk, alpha, dims>>

(* C15 as stated: a logpdf or simulate call (for at least one sample) that *)
(* names, in its query or in its evidence, a column that is not attached   *)
(* ends in an error and leaves Zr, Nk, alpha and the column models as they *)
(* were.                                                                   *)
C15_UnattachedColumnRejected ==
    [][
        (/\ IsQuery(call')
         /\ call'[1] = "simulate" => call'[5] >= 1
         /\ ~((NamedByQuery(call') \cup PairCols(call'[4])) \subseteq DOMAIN dims))
        => (result' # "ok" /\ C15_Frame)
    ]_vars

(* C15 amended: a logpdf or simulate call (for at least one sample) whose  *)
(* query names a column that is not attached, and a call on a hypothetical *)
(* row whose evidence names one, ends in an error and leaves Zr, Nk, alpha *)
(* and the column models as they were.  The evidence of an observed row is *)
(* ignored, so a column it names is not looked up.                         *)
C15_UnattachedQueryColumnRejected ==
    [][
        (/\ IsQuery(call')
         /\ call'[1] = "simulate" => call'[5] >= 1
         /\ \/ ~(NamedByQuery(call') \subseteq DOMAIN dims)
            \/ /\ ~(PairCols(call'[4]) \subseteq DOMAIN dims)
               /\ ~InRange(call'[2], Zr))
        => (result' # "ok" /\ C15_Frame)
    ]_vars

\* an observed logpdf has failed on the second column of its query, which is
\* not attached, after evaluating the first
C15_Witness ==
    /\ Called("logpdf")
    /\ result = "KeyError"
    /\ InRange(call[2], Zr)
    /\ Len(call[3]) = 2
    /\ Len(DimCalls(log)) = 1
    /\ Len(Nk) = 2

-----------------------------------------------------------------------------
(* What the claims read off a sweep. *)

\* the rows visited by the row transitions of a log, in order
Visits(lg) ==
    LET v == SelectSeq(lg, LAMBDA e : e[1] = "_transition_row")
    IN [j \in 1 .. Len(v) |-> v[j][2]]

\* the kernels started by a log, in order
Kernels(lg) ==
    LET v == SelectSeq(lg, LAMBDA e :
                 e[1] \in {"transition_rows", "transition_alpha",
                           "transition_column_hypers"})
    IN [j \in 1 .. Len(v) |-> v[j][1]]

\* row transitions applied one after the other from row rowid to row n-1,
\* each to a state left by the one before
RECURSIVE OneByOne(_, _, _)
OneByOne(S, rowid, n) ==
    IF rowid >= n THEN S
    ELSE OneByOne(UNION {_transition_row(s, rowid, DefaultAux) : s \in S}, rowid + 1, n)

\* a call record describes the state reached and what the call did, but for
\* the first n entries of its log
Reached(s, n) ==
    /\ Zr' = s.Zr
    /\ Nk' = s.Nk
    /\ dims' = s.dims
    /\ result' = s.err
    /\ SubSeq(log', n + 1, Len(log')) = s.log

\* a sweep step has visited every row once, in order, each row transition
\* working on the state left by the one before, and has returned
SweepInOrder ==
    /\ result' = "ok"
    /\ Visits(log') = [j \in 1 .. Len(Zr) |-> j - 1]
    /\ \E s \in OneByOne({Self}, 0, Len(Zr)) : Reached(s, 1)

(* C16: a sweep (transition_rows with no rows given) on a view with a      *)
(* positive concentration visits every row index 0 .. len(Zr)-1 exactly    *)
(* once, in increasing order, each row transition working on the state     *)
(* left by the one before, and ends after len(Zr) row transitions.         *)
C16_SweepVisitsEveryRowInOrder ==
    [][(call'[1] = "transition_rows" /\ Positive(alpha)) => SweepInOrder]_vars

\* the same, of the sweeps over a view that holds no vacated row
C16_SweepOfAssignedRows ==
    [][(call'[1] = "transition_rows" /\ Positive(alpha) /\ Vacant(Zr) = {})
          => SweepInOrder]_vars

\* a transition(N) step has run N rounds of sweep, concentration and column
\* hyperparameters, in this order, and has returned; none for N = 0
RoundsInOrder ==
    LET N == call'[2]
        kernels == Kernels(log')
        hypers == SelectSeq(log', LAMBDA e : e[1] = "transition_hypers")
        cols == ColSeq(DOMAIN dims)
    IN /\ result' = "ok"
       /\ Len(kernels) = 3 * N
       /\ \A j \in 1 .. Len(kernels) :
              kernels[j] = IF j % 3 = 1 THEN "transition_rows"
                           ELSE IF j % 3 = 2 THEN "transition_alpha"
                           ELSE "transition_column_hypers"
       /\ Len(Visits(log')) = N * Len(Zr)
       /\ Len(hypers) = N * Len(cols)
       /\ \A j \in 1 .. Len(hypers) :
              hypers[j][2] = cols[((j - 1) % Len(cols)) + 1]
       /\ N >= 1 => log'[Len(log') - Len(cols)][1] = "transition_column_hypers"
       /\ N = 0 => log' = <<>> /\ UNCHANGED <<X, Zr, Nk, dims, alpha, alpha_grid>>

(* C17: transition(N) on a view with a positive concentration runs exactly *)
(* N rounds, each a full row sweep, then the concentration transition,     *)
(* then the hyperparameter transition of every attached column, one round  *)
(* after the other; transition(0) does nothing.                            *)
C17_RoundsInOrder ==
    [][(call'[1] = "transition" /\ Positive(alpha)) => RoundsInOrder]_vars

\* the same, of the calls on a view that holds no vacated row
C17_RoundsOverAssignedRows ==
    [][(call'[1] = "transition" /\ Positive(alpha) /\ Vacant(Zr) = {})
          => RoundsInOrder]_vars

-----------------------------------------------------------------------------
(* What the claims read off the construction and the columns. *)

\* per cluster and value, the rows of the column c that hold the value
ColumnStatistics(data, zr, c, K) ==
    [k \in 1 .. K |->
        [v \in Vals |->
            Cardinality({i \in 1 .. Len(zr) : zr[i] = k - 1 /\ data[i][c + 1] = v})]]

\* the concentration is one of the entries of the grid
InGrid(a, grid) == \E i \in 0 .. (grid.size - 1) : a = GridAt(grid, i)

(* C18: a view constructed with a dense assignment holds that assignment,  *)
(* Nk[k] is the number of rows given label k (all rows in cluster 0 give   *)
(* Nk = [len(Zr)]), and every column model given is attached under its     *)
(* column index, bulk-incorporated under that assignment.                  *)
C18_ConstructionFromAssignment ==
    (Called("__init__") /\ call[3] # {})
    => LET zr == CHOOSE z \in call[3] : TRUE
           given == call[4]
       IN /\ Zr = zr
          /\ \A k \in 0 .. (Len(zr) - 1) :
                 LET n == Cardinality({i \in 1 .. Len(zr) : zr[i] = k})
                 IN IF n > 0 THEN k < Len(Nk) /\ At(Nk, k) = n ELSE k >= Len(Nk)
          /\ (\A i \in 1 .. Len(zr) : zr[i] = 0) => Nk = <<Len(zr)>>
          /\ DOMAIN dims = given
          /\ \A c \in given :
                 /\ \E j \in Entries(log, "bulk_incorporate") : log[j][2] = c
                 /\ dims[c] = ColumnStatistics(X, zr, c, Len(Nk))

\* a view has been constructed with two clusters supplied and both columns
C18_Witness ==
    /\ Called("__init__")
    /\ call[3] # {}
    /\ call[4] = Cols
    /\ Len(Nk) = 2
    /\ Cardinality(Entries(log, "bulk_incorporate")) = 2

(* C19: the grid is the one built at construction in every reachable       *)
(* state, whatever set_dataset and the transitions did since; a            *)
(* concentration drawn by the constructor is an entry of the grid, and so  *)
(* is the concentration after every concentration transition, which is     *)
(* then positive.                                                          *)
C19_GridFixedAndDrawnFrom ==
    /\ alpha_grid = log_linspace(InitRows, GridSize)
    /\ (Called("__init__") /\ call[2] = {}) => InGrid(alpha, alpha_grid)
    /\ Called("transition_alpha") => InGrid(alpha, alpha_grid) /\ Positive(alpha)

\* the concentration has been drawn from the grid after the dataset grew
C19_Witness ==
    /\ Called("transition_alpha")
    /\ result = "ok"
    /\ Len(X) > InitRows
    /\ Len(Zr) > InitRows

(* C20: incorporate_dim adds the column model under its column index and   *)
(* unincorporate_dim removes exactly that index; neither changes Zr, Nk,   *)
(* alpha or another column model; unincorporate_dim, and incorporate_dim   *)
(* with reassign=False, make no call that changes the model, and           *)
(* incorporate_dim with reassign=True bulk-incorporates the model's column *)
(* under the view's Zr.                                                    *)
C20_DimsOnlyChangeTheMapping ==
    [][
        /\ call'[1] = "incorporate_dim" =>
               LET c == call'[2]
                   reassign == call'[3]
                   dim == call'[4]
               IN /\ DOMAIN dims' = DOMAIN dims \cup {c}
                  /\ \A d \in DOMAIN dims \ {c} : dims'[d] = dims[d]
                  /\ UNCHANGED <<Zr, Nk, alpha>>
                  /\ reassign =>
                         /\ \A j \in Mutations(log') :
                                log'[j][1] = "bulk_incorporate" /\ log'[j][2] = c
                         /\ Cardinality(Mutations(log')) = 1
                         /\ dims'[c] = ColumnStatistics(X, Zr, c, Len(Nk))
                  /\ ~reassign => Mutations(log') = {} /\ dims'[c] = dim
        /\ call'[1] = "unincorporate_dim" =>
               LET c == call'[2]
               IN /\ DOMAIN dims' = DOMAIN dims \ {c}
                  /\ \A d \in DOMAIN dims' : dims'[d] = dims[d]
                  /\ UNCHANGED <<Zr, Nk, alpha>>
                  /\ Mutations(log') = {}
    ]_vars

\* a column model has been attached without reassignment next to another,
\* on a view with two clusters
C20_Witness ==
    /\ Called("incorporate_dim")
    /\ call[3] = FALSE
    /\ DOMAIN dims = Cols
    /\ Len(Nk) = 2

\* a column model has been detached from a view with two, leaving the other
C20_WitnessDetach ==
    /\ Called("unincorporate_dim")
    /\ Cardinality(DOMAIN dims) = 1
    /\ Len(Nk) = 2

-----------------------------------------------------------------------------
(* reindex_rows at any time, also while the dataset and the assignment     *)
(* disagree.  A view whose reindex_rows has failed is not used again: its  *)
(* row ids no longer name the rows of X.                                   *)

\* the call records the lengths of Zr and X it found
ReindexRowsAnytime ==
    /\ Len(X) <= MaxRows
    /\ Return(reindex_rows(Self), <<"reindex_rows", Len(Zr), Len(X), 0>>)

Usable == ~(Called("reindex_rows") /\ result # "ok")

ReindexNext ==
    \/ \E rowid \in 0 .. (MaxRows - 1), k \in {None} \cup (0 .. MaxRows) :
           Usable /\ IncorporateRow(rowid, k)
    \/ \E rowid \in 0 .. (MaxRows - 1) : Usable /\ UnincorporateRow(rowid)
    \/ \E c \in Cols, reassign \in BOOLEAN : Usable /\ IncorporateDim(c, reassign)
    \/ \E c \in Cols : Usable /\ UnincorporateDim(c)
    \/ \E data \in Appended \cup Removed : Usable /\ SetDataset(data)
    \/ ReindexRowsAnytime

ReindexSpec == Init /\ [][ReindexNext]_vars

\* the vacant slots (1-based) below slot i
VacantBelow(zr, i) == {j \in Vacant(zr) : j < i}

(* C21: reindex_rows drops exactly the vacant entries of Zr and keeps the  *)
(* other labels in their order, leaving Nk (and the column models and the  *)
(* concentration) unchanged; it fails exactly when the length left differs *)
(* from len(X); when it succeeds Zr has no vacant entry and                *)
(* len(Zr) = sum(Nk) = len(X).                                             *)
C21_ReindexDropsVacantEntries ==
    [][
        call'[1] = "reindex_rows"
        => /\ Len(Zr') = Cardinality(Assigned(Zr))
           /\ Vacant(Zr') = {}
           /\ \A i \in Assigned(Zr) :
                  Zr'[i - Cardinality(VacantBelow(Zr, i))] = Zr[i]
           /\ UNCHANGED <<X, Nk, dims, alpha, alpha_grid>>
           /\ result' = "ok" <=> Len(Zr') = Len(X)
           /\ result' = "ok" => Len(Zr') = SumSeq(Nk') /\ SumSeq(Nk') = Len(X')
    ]_vars

\* reindex_rows has dropped a vacant entry that lay below an assigned one,
\* after the dataset lost the row, and has returned
C21_Witness ==
    /\ Called("reindex_rows")
    /\ result = "ok"
    /\ call[2] > Len(Zr)
    /\ call[3] = Len(Zr)
    /\ Len(Zr) >= 2
    /\ Len(Nk) = 2

\* reindex_rows has dropped a vacant entry while the dataset still held the
\* row, and has failed
C21_WitnessFails ==
    /\ Called("reindex_rows")
    /\ result = "AssertionError"
    /\ call[2] > Len(Zr)
    /\ call[3] > Len(Zr)

-----------------------------------------------------------------------------
(* What the claims read off the evaluation of a row transition. *)

\* the view after the evaluations of _transition_row(rowid, m), before the
\* draw: the existing clusters, then the auxiliary ones
Evaluated(s, rowid, m) ==
    LET s1 == logp_data(Note(s, "_transition_row", rowid, 0, m), rowid, 0)
    IN logp_data_aux(s1, rowid, m_aux(s1, rowid, m))

\* a log starts with the entries of another
StartsWith(lg, head) == Len(head) <= Len(lg) /\ SubSeq(lg, 1, Len(head)) = head

\* in a log of evaluations of a row that holds label z, every excision is at
\* z and is followed by the predictive and the re-incorporation of the same
\* value into the same cluster, and the predictive at z is taken with the
\* value excised
ExcisedOnlyAtOwnLabel(lg, z) ==
    \A j \in 1 .. Len(lg) :
        /\ lg[j][1] = "unincorporate" =>
               /\ lg[j][4] = z
               /\ j + 2 <= Len(lg)
               /\ lg[j + 1] = <<"logpdf", lg[j][2], lg[j][3], lg[j][4]>>
               /\ lg[j + 2] = <<"incorporate", lg[j][2], lg[j][3], lg[j][4]>>
        /\ lg[j][1] = "incorporate" => j >= 3 /\ lg[j - 2][1] = "unincorporate"
        /\ (lg[j][1] = "logpdf" /\ lg[j][4] = z) =>
               j >= 2 /\ lg[j - 1][1] = "unincorporate"

(* C22: the evaluations of a row transition are transient.  The row's      *)
(* value is excised from a column model only for the candidate that is the *)
(* row's own label, the predictive is taken and the value is put back into *)
(* the same cluster; when all candidates are evaluated the statistics of   *)
(* every column model, Zr and Nk are what they were before.  So a          *)
(* transition whose draw is the row's own label leaves them unchanged.     *)
C22_EvaluationIsTransient ==
    [][
        (call'[1] = "_transition_row" /\ ~IsNaN(At(Zr, call'[2])))
        =>
        \A e \in {Evaluated(Self, call'[2], call'[4])} :
           /\ StartsWith(log', e.log)
           /\ Running(e)
           /\ ExcisedOnlyAtOwnLabel(e.log, At(Zr, call'[2]))
           /\ e.dims = dims /\ e.Zr = Zr /\ e.Nk = Nk
           /\ (Entries(log', "log_pflip") # {} /\ Drawn(log') = At(Zr, call'[2]))
                  => UNCHANGED <<Zr, Nk, dims>>
    ]_vars

\* a row of a view with two clusters and two column models has been
\* evaluated against both clusters and a fresh one and has stayed: each
\* column model saw one excision and one re-incorporation
C22_Witness ==
    /\ Called("_transition_row")
    /\ result = "ok"
    /\ DOMAIN dims = Cols
    /\ Len(Nk) = 2
    /\ Len(Evaluations(log)) = 3
    /\ Drawn(log) = At(Zr, call[2])
    /\ Cardinality(Entries(log, "unincorporate")) = 2
    /\ Cardinality(Entries(log, "incorporate")) = 2

-----------------------------------------------------------------------------
(* Samples of hypothetical rows, by simulate and by _simulate_hypothetical *)
(* with the cluster column asked for or not.                               *)

MaxClusterSamples == 2      \* largest N given to _simulate_hypothetical

\* what _simulate_hypothetical is asked directly: the queries of both columns
SampleRequests == {r \in Requests : Len(r.query) = 2}

SimulateHypothetical(query, evidence, N, cluster) ==
    /\ N <= MaxClusterSamples
    /\ \E s \in _simulate_hypothetical(Self, query, evidence, N, cluster) :
           Return(s, <<"_simulate_hypothetical", cluster, query, evidence, N>>)

SampleNext ==
    \/ Observe
    \/ \E r \in Requests, N \in 0 .. MaxSamples :
           Simulate(-1, QueryCols(r.query), r.evidence, N)
    \/ \E r \in SampleRequests, N \in 0 .. MaxClusterSamples, cluster \in BOOLEAN :
           SimulateHypothetical(QueryCols(r.query), r.evidence, N, cluster)

SampleSpec == Init /\ [][SampleNext]_vars

\* the samples a log has appended, in order
Samples(lg) ==
    LET v == SelectSeq(lg, LAMBDA e : e[1] = "append")
    IN [j \in 1 .. Len(v) |-> v[j][2]]

\* the labels a log has drawn, and the number of candidates of each draw
ClusterDraws(lg) == SelectSeq(lg, LAMBDA e : e[1] = "log_pflip")

\* the simulate calls a log has made on the column models, in order
SimulateCalls(lg) == SelectSeq(lg, LAMBDA e : e[1] = "simulate")

(* C23: a simulate of a hypothetical row for N samples that returns has    *)
(* made N samples; the cluster of each is drawn among len(Nk)+1            *)
(* candidates, so the label is in 0 .. len(Nk); every query column of a    *)
(* sample is simulated by its column model at the label drawn for that     *)
(* sample, in the order of the query; the label is one more field at the   *)
(* end of the sample exactly when the cluster column is asked for.         *)
C23_HypotheticalSamples ==
    [][
        (/\ \/ call'[1] = "_simulate_hypothetical"
            \/ call'[1] = "simulate" /\ ~InRange(call'[2], Zr)
         /\ result' = "ok")
        =>
        LET cluster == IF call'[1] = "simulate" THEN FALSE ELSE call'[2]
            cols == call'[3]
            N == call'[5]
        IN \A samples \in {Samples(log')}, drawn \in {ClusterDraws(log')},
              calls \in {SimulateCalls(log')} :
               /\ Len(samples) = N
               /\ Len(drawn) = N
               /\ Len(calls) = N * Len(cols)
               /\ \A j \in 1 .. N :
                      /\ drawn[j][2] = Len(Nk) + 1
                      /\ drawn[j][4] \in 0 .. Len(Nk)
                      /\ Len(samples[j]) = Len(cols) + (IF cluster THEN 1 ELSE 0)
                      /\ \A i \in 1 .. Len(cols) :
                             /\ samples[j][i] = <<cols[i], drawn[j][4]>>
                             /\ calls[(j - 1) * Len(cols) + i]
                                    = <<"simulate", cols[i], 0, drawn[j][4]>>
                      /\ cluster => samples[j][Len(cols) + 1] = drawn[j][4]
    ]_vars

\* two samples of two columns have been drawn from a view with two clusters,
\* with the cluster column: one from an existing cluster, one from a fresh one
C23_Witness ==
    /\ Called("_simulate_hypothetical")
    /\ call[2] = TRUE
    /\ result = "ok"
    /\ call[5] = 2
    /\ Len(call[3]) = 2
    /\ Len(Nk) = 2
    /\ Len(Samples(log)) = 2
    /\ Samples(log)[1][3] = 0
    /\ Samples(log)[2][3] = Len(Nk)

\* simulate has drawn a sample for a hypothetical row, given evidence
C23_WitnessSimulate ==
    /\ Called("simulate")
    /\ result = "ok"
    /\ ~InRange(call[2], Zr)
    /\ call[4] # <<>>
    /\ Len(Samples(log)) = 1

-----------------------------------------------------------------------------
\* the entries of a log that are calls on a column model with a label
LabelledCalls(lg) ==
    {j \in 1 .. Len(lg) :
        lg[j][1] \in {"incorporate", "unincorporate", "logpdf", "simulate"}}

\* the larger of two numbers
Max(a, b) == IF a >= b THEN a ELSE b

(* C24: no per-row operation hands the mark of a vacated row to a column   *)
(* model: every label that incorporate_row, unincorporate_row, logpdf and  *)
(* simulate pass to a column model's incorporate, unincorporate, logpdf or *)
(* simulate is an integer in 0 .. len(Nk), also when the row asked about   *)
(* lies within Zr and its slot is vacant.  (The sweep, which indexes Nk    *)
(* with the mark, is the matter of C7.)                                    *)
C24_NoVacantLabelReachesAColumnModel ==
    [][
        call'[1] \in {"incorporate_row", "unincorporate_row", "logpdf", "simulate"}
        => \A j \in LabelledCalls(log') :
               /\ ~IsNaN(log'[j][4])
               /\ log'[j][4] \in 0 .. Max(Len(Nk), Len(Nk'))
    ]_vars

-----------------------------------------------------------------------------
(* The CRP computations: the weights of a hypothetical row, the marginal   *)
(* and the concentration transition, between the calls that observe rows   *)
(* and columns.                                                            *)

\* gu.logp_crp takes a positive concentration
LogpdfMarginal ==
    /\ Positive(alpha)
    /\ Return(logpdf_marginal(Self), <<"logpdf_marginal", 0, 0, 0>>)

CrpNext ==
    \/ Observe
    \/ \E r \in Requests : Logpdf(-1, r.query, r.evidence)
    \/ LogpdfMarginal
    \/ \E index \in 0 .. (MaxGridDraw - 1) : TransitionAlpha(index)

CrpSpec == Init /\ [][CrpNext]_vars

\* the entries of a log that are CRP computations; each holds the row count
\* it used in its third field
CrpComputations(lg) ==
    {j \in 1 .. Len(lg) :
        lg[j][1] \in {"_compute_cluster_crp_logps", "logp_crp", "transition_alpha"}}

(* C25: the row count used by the CRP computations (the denominator of the *)
(* cluster weights of a hypothetical row, the CRP term of logpdf_marginal, *)
(* the concentration transition) is the number of assigned rows, sum(Nk),  *)
(* in every reachable state, vacant slots included; so the weights         *)
(* Nk[k]/(n+alpha) and alpha/(n+alpha) add up to 1.  Read off every call   *)
(* that returns.                                                           *)
C25_CrpCountsAssignedRows ==
    result = "ok"
        => \A j \in CrpComputations(log) :
               /\ log[j][3] = SumSeq(Nk)
               /\ log[j][3] = Cardinality(Assigned(Zr))

-----------------------------------------------------------------------------
====
